---- MODULE Spec2Model ----
(***************************************************************************)
(* Model of benchmark_results/scripts/analyze_compaction_study.py:         *)
(* the line parser (parse_benchmark_results), the name consolidator        *)
(* (consolidate_benchmarks), the summary reducer (print_summary) and the   *)
(* __main__ pipeline that chains them.                                     *)
(*                                                                         *)
(* A line of the results file is represented by what the script's regular  *)
(* expressions capture from it: each re.search result is either <<>>       *)
(* (None) or a one-element sequence holding the captured groups.  Numeric  *)
(* groups are kept as text (sequences of characters drawn from [\d.]) and  *)
(* converted by float_ok / float_of / int_of the way float() and int() do. *)
(* Floats are held in fixed point: ratios and percentiles in hundredths,   *)
(* throughput in 1e-5 M/s so that the division by 1000 is exact.           *)
(* Python dicts are ordered: a dict is a sequence of [k, v] entries in     *)
(* insertion order.                                                        *)
(***************************************************************************)
EXTENDS Integers, Sequences, FiniteSets, TLC

\* Longest results file explored (number of lines).
MaxLines == 4

\* Python's None; float() of a [\d.]+ text is never negative.
None == 0 - 1

----------------------------------------------------------------------------
\* Ordered dictionaries (dict / defaultdict)

Keys(d) == {d[i].k : i \in DOMAIN d}

Has(d, k) == \E i \in DOMAIN d : d[i].k = k

Get(d, k) == d[CHOOSE i \in DOMAIN d : d[i].k = k].v

\* defaultdict read: the default value when the key is missing
GetOr(d, k, dflt) == IF Has(d, k) THEN Get(d, k) ELSE dflt

\* d[k] = v : overwrite in place, or append a new key at the end
Put(d, k, v) ==
    IF Has(d, k)
    THEN [i \in DOMAIN d |-> IF d[i].k = k THEN [k |-> k, v |-> v] ELSE d[i]]
    ELSE Append(d, [k |-> k, v |-> v])

\* d[a][b][c] = v on a three-level defaultdict
Put3(d, a, b, c, v) ==
    Put(d, a, Put(GetOr(d, a, <<>>), b, Put(GetOr(GetOr(d, a, <<>>), b, <<>>), c, v)))

\* d[a][b][c][e] = v on a four-level defaultdict
Put4(d, a, b, c, e, v) ==
    Put(d, a, Put3(GetOr(d, a, <<>>), b, c, e, v))

Has3(d, a, b, c) == Has(d, a) /\ Has(Get(d, a), b) /\ Has(Get(Get(d, a), b), c)

Get3(d, a, b, c) == Get(Get(Get(d, a), b), c)

RECURSIVE Concat(_)
Concat(ss) == IF ss = <<>> THEN <<>> ELSE Head(ss) \o Concat(Tail(ss))

\* items of a three-level dict in nested iteration order: <<a, b, c, v>>
Items3(d) ==
    Concat([i \in DOMAIN d |->
      Concat([j \in DOMAIN d[i].v |->
        [m \in DOMAIN d[i].v[j].v |->
           <<d[i].k, d[i].v[j].k, d[i].v[j].v[m].k, d[i].v[j].v[m].v>>]])])

\* items of a four-level dict in nested iteration order: <<a, b, c, e, v>>
Items4(d) ==
    Concat([i \in DOMAIN d |->
      Concat([j \in DOMAIN d[i].v |->
        Concat([m \in DOMAIN d[i].v[j].v |->
          [n \in DOMAIN d[i].v[j].v[m].v |->
             <<d[i].k, d[i].v[j].k, d[i].v[j].v[m].k,
               d[i].v[j].v[m].v[n].k, d[i].v[j].v[m].v[n].v>>]])])])

----------------------------------------------------------------------------
\* float() and int() on the text captured by [\d.]+ and \d+

DigitVal(c) ==
    CASE c = "0" -> 0 [] c = "1" -> 1 [] c = "2" -> 2 [] c = "3" -> 3
      [] c = "4" -> 4 [] c = "5" -> 5 [] c = "6" -> 6 [] c = "7" -> 7
      [] c = "8" -> 8 [] c = "9" -> 9

RECURSIVE int_of(_)
int_of(s) ==
    IF s = <<>> THEN 0
    ELSE int_of(SubSeq(s, 1, Len(s) - 1)) * 10 + DigitVal(s[Len(s)])

Dots(s) == {i \in DOMAIN s : s[i] = "."}

\* float(text) succeeds: at most one decimal point and at least one digit
float_ok(s) == Cardinality(Dots(s)) <= 1 /\ Len(s) > Cardinality(Dots(s))

\* float(text) in hundredths (texts carry at most two decimals)
float_of(s) ==
    LET p == IF Dots(s) = {} THEN Len(s) + 1 ELSE CHOOSE i \in Dots(s) : TRUE
        whole == SubSeq(s, 1, p - 1)
        frac == SubSeq(s, p + 1, Len(s))
    IN int_of(whole) * 100
       + (IF Len(frac) = 0 THEN 0
          ELSE IF Len(frac) = 1 THEN int_of(frac) * 10
          ELSE int_of(SubSeq(frac, 1, 2)))

----------------------------------------------------------------------------
\* The lines of the results file, as seen by the script's regular expressions

NoPct == [p50 |-> <<>>, p99 |-> <<>>, p999 |-> <<>>]

\* ratio : match of  Testing Compaction Ratio:\s+([\d.]+)      -> <<group(1)>>
\* bench : match of  (BM_\w+)/(\d+)\s+...items_per_second=([\d.]+)([MK])/s
\* pct[p]: match of  p=([\d.]+)k?    -> text and whether 'k' is in group(0)
Line(r, b, p) == [ratio |-> r, bench |-> b, pct |-> p]

Bench(n, d, t, u) == <<[name |-> n, depth |-> d, tp |-> t, unit |-> u]>>

Pct(t, k) == <<[num |-> t, k |-> k]>>

NoMatchName == "BM_AddOrder_No_Match"
LatencyName == "BM_AddOrder_Latency"
OtherName == "BM_CancelOrder"

D1000 == <<"1", "0", "0", "0">>
D0 == <<"0">>
Garbled == <<"1", ".", "2", ".", "3">>

Lines ==
    { \* Testing Compaction Ratio: 0.5
      Line(<< <<"0", ".", "5">> >>, <<>>, NoPct),
      \* Testing Compaction Ratio: 0.7.5
      Line(<< <<"0", ".", "7", ".", "5">> >>, <<>>, NoPct),
      \* a log line with a percentile token but no benchmark result
      Line(<<>>, <<>>, [NoPct EXCEPT !.p50 = Pct(<<"9">>, FALSE)]),
      \* BM_AddOrder_No_Match/1000 ... items_per_second=2M/s
      Line(<<>>, Bench(NoMatchName, D1000, <<"2">>, "M"), NoPct),
      \* BM_AddOrder_No_Match/1000 ... items_per_second=3M/s p50=4
      Line(<<>>, Bench(NoMatchName, D1000, <<"3">>, "M"),
           [NoPct EXCEPT !.p50 = Pct(<<"4">>, FALSE)]),
      \* BM_AddOrder_Latency/1000 ... items_per_second=500K/s p50=5k p99=6
      Line(<<>>, Bench(LatencyName, D1000, <<"5", "0", "0">>, "K"),
           [NoPct EXCEPT !.p50 = Pct(<<"5">>, TRUE), !.p99 = Pct(<<"6">>, FALSE)]),
      \* BM_AddOrder_Latency/0 ... items_per_second=0M/s p99=7
      Line(<<>>, Bench(LatencyName, D0, <<"0">>, "M"),
           [NoPct EXCEPT !.p99 = Pct(<<"7">>, FALSE)]),
      \* Testing Compaction Ratio: 0.75 BM_AddOrder_No_Match/1000 ... =3M/s
      Line(<< <<"0", ".", "7", "5">> >>, Bench(NoMatchName, D1000, <<"3">>, "M"), NoPct),
      \* BM_AddOrder_No_Match/1000 ... items_per_second=1.2.3M/s
      Line(<<>>, Bench(NoMatchName, D1000, Garbled, "M"), NoPct),
      \* BM_CancelOrder/0 ... items_per_second=3M/s p50=8 p999=1.2.3
      Line(<<>>, Bench(OtherName, D0, <<"3">>, "M"),
           [NoPct EXCEPT !.p50 = Pct(<<"8">>, FALSE), !.p999 = Pct(Garbled, FALSE)]),
      \* BM_CancelOrder/0 ... items_per_second=3M/s p999=8
      Line(<<>>, Bench(OtherName, D0, <<"3">>, "M"),
           [NoPct EXCEPT !.p999 = Pct(<<"8">>, FALSE)]) }

----------------------------------------------------------------------------
VARIABLES
    pc,                      \* position in __main__ / parse_benchmark_results
    hist,                    \* the lines of the file read so far, in order
    current_ratio,           \* parse_benchmark_results: ambient ratio or None
    throughput_data,         \* raw name -> ratio -> depth -> throughput
    latency_data,            \* raw name -> ratio -> depth -> percentile -> value
    consolidated_throughput, \* canonical name -> ratio -> depth -> throughput
    consolidated_latency,    \* canonical name -> ratio -> depth -> pct -> value
    summary,                 \* lines printed by print_summary, in order
    calls,                   \* functions __main__ has called, in order
    exc                      \* the exception propagating, or "" when none

vars == <<pc, hist, current_ratio, throughput_data, latency_data,
          consolidated_throughput, consolidated_latency, summary, calls, exc>>

parseVars == <<current_ratio, throughput_data, latency_data>>
postVars == <<consolidated_throughput, consolidated_latency, summary, calls>>

Init ==
    /\ pc = "parse"
    /\ hist = <<>>
    /\ current_ratio = None
    /\ throughput_data = <<>>
    /\ latency_data = <<>>
    /\ consolidated_throughput = <<>>
    /\ consolidated_latency = <<>>
    /\ summary = <<>>
    /\ calls = <<"parse_benchmark_results">>
    /\ exc = ""

----------------------------------------------------------------------------
\* parse_benchmark_results: the body of  for line in f

\* line 22: ratio_match = re.search(...)
ratio_match(l) == l.ratio # <<>>

\* lines 23-25: a ratio line ends the iteration (continue)
continues_after_ratio_never(l) == FALSE

continues_after_ratio(l) == ratio_match(l)

\* line 27: if current_ratio is None: continue
ratio_unset_never(cr) == FALSE

ratio_unset(cr) == cr = None

\* line 37: if bench_match
bench_match(l) == l.bench # <<>>

\* lines 40-45: throughput in millions per second (held in 1e-5 M/s)
to_millions(text, unit) ==
    IF unit = "K" THEN (float_of(text) * 1000) \div 1000 ELSE float_of(text) * 1000

\* lines 55-57: percentile in nanoseconds (held in hundredths)
to_ns(m) == IF m.k THEN float_of(m.num) * 1000 ELSE float_of(m.num)

\* line 47: throughput_data[benchmark_name][current_ratio][depth] = throughput
store_throughput_keepfirst(td, name, ratio, depth, v) ==
    IF Has3(td, name, ratio, depth) THEN td ELSE Put3(td, name, ratio, depth, v)

store_throughput_dropped(td, name, ratio, depth, v) == td

store_throughput(td, name, ratio, depth, v) == Put3(td, name, ratio, depth, v)

Percentiles == <<"p50", "p99", "p999">>

\* lines 54-70: the three  if pNN_match  blocks, in order; a float() that
\* raises ValueError leaves the entries stored before it
RECURSIVE store_percentiles(_, _, _, _, _, _)
store_percentiles(ld, l, name, ratio, depth, i) ==
    IF i > Len(Percentiles) THEN [ld |-> ld, raised |-> FALSE]
    ELSE LET m == l.pct[Percentiles[i]]
         IN IF m = <<>> THEN store_percentiles(ld, l, name, ratio, depth, i + 1)
            ELSE IF ~float_ok(m[1].num) THEN [ld |-> ld, raised |-> TRUE]
            ELSE store_percentiles(
                     Put4(ld, name, ratio, depth, Percentiles[i], to_ns(m[1])),
                     l, name, ratio, depth, i + 1)

Reading == pc = "parse" /\ Len(hist) < MaxLines

\* lines 22-25: a ratio announcement whose number float() accepts
ReadRatio(l) ==
    /\ Reading
    /\ ratio_match(l)
    /\ float_ok(l.ratio[1])
    /\ hist' = Append(hist, l)
    /\ current_ratio' = float_of(l.ratio[1])
    /\ UNCHANGED <<pc, throughput_data, latency_data, postVars, exc>>

\* line 24: float(ratio_match.group(1)) raises ValueError
ReadRatioRaises(l) ==
    /\ Reading
    /\ ratio_match(l)
    /\ ~float_ok(l.ratio[1])
    /\ hist' = Append(hist, l)
    /\ pc' = "raised"
    /\ exc' = "ValueError"
    /\ UNCHANGED <<parseVars, postVars>>

\* lines 27-28: no ambient ratio yet
SkipBeforeRatio(l) ==
    /\ Reading
    /\ ~continues_after_ratio(l)
    /\ ratio_unset(current_ratio)
    /\ hist' = Append(hist, l)
    /\ UNCHANGED <<pc, parseVars, postVars, exc>>

\* lines 33-70: a benchmark result line
ReadBench(l) ==
    /\ Reading
    /\ ~continues_after_ratio(l)
    /\ ~ratio_unset(current_ratio)
    /\ bench_match(l)
    /\ hist' = Append(hist, l)
    /\ LET m == l.bench[1]
           depth == int_of(m.depth)
           pr == store_percentiles(latency_data, l, m.name, current_ratio, depth, 1)
       IN IF ~float_ok(m.tp)
          THEN /\ pc' = "raised"
               /\ exc' = "ValueError"
               /\ UNCHANGED <<throughput_data, latency_data>>
          ELSE /\ throughput_data' =
                     store_throughput(throughput_data, m.name, current_ratio,
                                      depth, to_millions(m.tp, m.unit))
               /\ latency_data' = pr.ld
               /\ pc' = IF pr.raised THEN "raised" ELSE pc
               /\ exc' = IF pr.raised THEN "ValueError" ELSE exc
    /\ UNCHANGED <<current_ratio, postVars>>

\* lines 33-37: a line matching neither pattern
ReadOther(l) ==
    /\ Reading
    /\ ~continues_after_ratio(l)
    /\ ~ratio_unset(current_ratio)
    /\ ~bench_match(l)
    /\ hist' = Append(hist, l)
    /\ UNCHANGED <<pc, parseVars, postVars, exc>>

\* line 72: the file is exhausted and the two models are returned
EndOfFile ==
    /\ pc = "parse"
    /\ pc' = "parsed"
    /\ UNCHANGED <<hist, parseVars, postVars, exc>>

----------------------------------------------------------------------------
\* consolidate_benchmarks

\* lines 77-82
name_mapping ==
    << [k |-> "BM_AddOrder_No_Match", v |-> "Add Order"],
       [k |-> "BM_AddOrder_Latency", v |-> "Add Order"],
       [k |-> "BM_RemoveOrder_VaryDepth", v |-> "Remove Order"],
       [k |-> "BM_MixedWorkload", v |-> "Mixed Workload"] >>

\* lines 89, 101: name_mapping.get(benchmark_name, benchmark_name)
clean_name(n) == GetOr(name_mapping, n, n)

\* lines 92-93: skip the Latency throughput when No_Match is present
superseded_never(n, td) == FALSE

superseded(n, td) ==
    n = "BM_AddOrder_Latency" /\ Has(td, "BM_AddOrder_No_Match")

\* lines 88-97, over the items of throughput_data in iteration order
RECURSIVE consolidate_throughput(_, _, _)
consolidate_throughput(items, td, acc) ==
    IF items = <<>> THEN acc
    ELSE LET e == Head(items)
         IN consolidate_throughput(Tail(items), td,
               IF superseded(e[1], td) THEN acc
               ELSE Put3(acc, clean_name(e[1]), e[2], e[3], e[4]))

\* lines 100-105, over the items of latency_data in iteration order
RECURSIVE consolidate_latency_firstwins(_, _)
consolidate_latency_firstwins(items, acc) ==
    IF items = <<>> THEN acc
    ELSE LET e == Head(items)
             c == clean_name(e[1])
         IN consolidate_latency_firstwins(Tail(items),
               IF Has(acc, c) /\ Has3(Get(acc, c), e[2], e[3], e[4]) THEN acc
               ELSE Put4(acc, c, e[2], e[3], e[4], e[5]))

RECURSIVE consolidate_latency(_, _)
consolidate_latency(items, acc) ==
    IF items = <<>> THEN acc
    ELSE LET e == Head(items)
         IN consolidate_latency(Tail(items),
               Put4(acc, clean_name(e[1]), e[2], e[3], e[4], e[5]))

----------------------------------------------------------------------------
\* print_summary

Min(S) == CHOOSE x \in S : \A y \in S : x <= y

\* sorted(set(...))
RECURSIVE sorted(_)
sorted(S) == IF S = {} THEN <<>> ELSE <<Min(S)>> \o sorted(S \ {Min(S)})

\* line 215: every depth recorded under any ratio, ascending
all_depths(ratios) ==
    sorted(UNION {Keys(ratios[j].v) : j \in DOMAIN ratios})

\* lines 218-224: scan the ratios in iteration order
RECURSIVE best_of(_, _, _, _)
best_of(ratios, depth, j, best) ==
    IF j > Len(ratios) THEN best
    ELSE best_of(ratios, depth, j + 1,
            IF Has(ratios[j].v, depth) /\ Get(ratios[j].v, depth) > best.best_throughput
            THEN [best_ratio |-> ratios[j].k,
                  best_throughput |-> Get(ratios[j].v, depth)]
            ELSE best)

\* lines 210-227: one entry per operation and depth, in print order
summary_entries(data) ==
    Concat([i \in DOMAIN data |->
      LET ds == all_depths(data[i].v)
      IN [m \in DOMAIN ds |->
            LET b == best_of(data[i].v, ds[m], 1,
                             [best_ratio |-> None, best_throughput |-> 0])
            IN [name |-> data[i].k, depth |-> ds[m],
                best_ratio |-> b.best_ratio,
                best_throughput |-> b.best_throughput]]])

\* line 227: f"{best_ratio:.2f}" raises TypeError when best_ratio is None
format_raises(e) == e.best_ratio = None

\* the entries printed before the first one whose formatting raises
RECURSIVE printed(_)
printed(es) ==
    IF es = <<>> \/ format_raises(Head(es)) THEN <<>>
    ELSE <<Head(es)>> \o printed(Tail(es))

----------------------------------------------------------------------------
\* __main__

\* lines 246-248: no benchmark data: report and sys.exit(1)
NoData ==
    /\ pc = "parsed"
    /\ throughput_data = <<>>
    /\ pc' = "exit"
    /\ calls' = Append(calls, "no_data")
    /\ UNCHANGED <<hist, parseVars, consolidated_throughput,
                   consolidated_latency, summary, exc>>

\* line 252
Consolidate ==
    /\ pc = "parsed"
    /\ throughput_data # <<>>
    /\ consolidated_throughput' =
          consolidate_throughput(Items3(throughput_data), throughput_data, <<>>)
    /\ consolidated_latency' = consolidate_latency(Items4(latency_data), <<>>)
    /\ calls' = Append(calls, "consolidate_benchmarks")
    /\ pc' = "consolidated"
    /\ UNCHANGED <<hist, parseVars, summary, exc>>

\* lines 258-265: the Report Emitter reads the canonical models
CreateGraphs ==
    /\ pc = "consolidated"
    /\ calls' = calls \o <<"create_throughput_graphs">>
                      \o (IF consolidated_latency # <<>>
                          THEN <<"create_latency_graphs">> ELSE <<>>)
    /\ pc' = "graphed"
    /\ UNCHANGED <<hist, parseVars, consolidated_throughput,
                   consolidated_latency, summary, exc>>

\* line 268
PrintSummary ==
    /\ pc = "graphed"
    /\ LET es == summary_entries(consolidated_throughput)
       IN /\ summary' = printed(es)
          /\ pc' = IF Len(printed(es)) < Len(es) THEN "raised" ELSE "done"
          /\ exc' = IF Len(printed(es)) < Len(es) THEN "TypeError" ELSE exc
    /\ calls' = Append(calls, "print_summary")
    /\ UNCHANGED <<hist, parseVars, consolidated_throughput, consolidated_latency>>

Next ==
    \/ \E l \in Lines : ReadRatio(l)
    \/ \E l \in Lines : ReadRatioRaises(l)
    \/ \E l \in Lines : SkipBeforeRatio(l)
    \/ \E l \in Lines : ReadBench(l)
    \/ \E l \in Lines : ReadOther(l)
    \/ EndOfFile
    \/ NoData
    \/ Consolidate
    \/ CreateGraphs
    \/ PrintSummary

Spec == Init /\ [][Next]_vars

----------------------------------------------------------------------------
\* Reading the input back: what the lines read so far say

IsAnnouncement(l) == l.ratio # <<>>

\* a result line: the loop reaches the benchmark pattern and it matches
IsResult(l) == l.ratio = <<>> /\ l.bench # <<>>

Max(S) == CHOOSE x \in S : \A y \in S : y <= x

\* the ratio announced most recently before line i (None when there is none)
AmbientAt(i) ==
    LET A == {j \in 1..(i - 1) : j \in DOMAIN hist /\ IsAnnouncement(hist[j])}
    IN IF A = {} THEN None ELSE float_of(hist[Max(A)].ratio[1])

\* the result lines carrying raw name n and depth d while r was ambient
ResultIdx(n, r, d) ==
    {i \in DOMAIN hist : /\ IsResult(hist[i])
                         /\ hist[i].bench[1].name = n
                         /\ int_of(hist[i].bench[1].depth) = d
                         /\ r # None
                         /\ AmbientAt(i) = r}

ToSet(s) == {s[i] : i \in DOMAIN s}

LastLine == hist'[Len(hist')]

LineRead == Len(hist') = Len(hist) + 1

Consolidated == \E i \in DOMAIN calls : calls[i] = "consolidate_benchmarks"

----------------------------------------------------------------------------
\* C1: no entry is added to the throughput or the latency model by a line
\* that precedes the first ratio announcement: while current_ratio is unset
\* (and while no announcement has been read) both models are empty.
C1_NoRecordBeforeFirstRatio ==
    (current_ratio = None \/ \A i \in DOMAIN hist : ~IsAnnouncement(hist[i]))
        => throughput_data = <<>> /\ latency_data = <<>>

\* a complete, well-formed result line has been read with no ratio announced
C1_Witness ==
    /\ current_ratio = None
    /\ exc = ""
    /\ \E i \in DOMAIN hist : /\ IsResult(hist[i])
                              /\ float_ok(hist[i].bench[1].tp)
                              /\ hist[i].pct # NoPct

\* C2: last-write-wins for throughput: once the lines read have been
\* processed, the value stored under every (raw_name, ratio, depth) key is the
\* normalized throughput of the last result line that carried that name and
\* depth while that ratio was ambient.
C2_LastWriteWinsThroughput ==
    exc = "" =>
      \A e \in ToSet(Items3(throughput_data)) :
          LET I == ResultIdx(e[1], e[2], e[3])
          IN /\ I # {}
             /\ e[4] = to_millions(hist[Max(I)].bench[1].tp, hist[Max(I)].bench[1].unit)

\* two result lines with the same key and different throughput have been read
C2_Witness ==
    /\ exc = ""
    /\ \E e \in ToSet(Items3(throughput_data)) :
         \E i, j \in ResultIdx(e[1], e[2], e[3]) :
            /\ i < j
            /\ to_millions(hist[i].bench[1].tp, hist[i].bench[1].unit)
                 # to_millions(hist[j].bench[1].tp, hist[j].bench[1].unit)

\* C3: when the raw throughput model contains BM_AddOrder_No_Match, the
\* canonical 'Add Order' throughput mapping is exactly the No_Match mapping
\* and nothing of BM_AddOrder_Latency's throughput is in the canonical model:
\* every canonical entry comes from a raw source other than Latency.
C3_SourceLevelSuppression ==
    (Consolidated /\ Has(throughput_data, NoMatchName)) =>
      /\ Has(consolidated_throughput, "Add Order")
      /\ ToSet(Items3(<<[k |-> "Add Order", v |-> Get(consolidated_throughput, "Add Order")]>>))
           = ToSet(Items3(<<[k |-> "Add Order", v |-> Get(throughput_data, NoMatchName)]>>))
      /\ ~Has(consolidated_throughput, LatencyName)
      /\ \A e \in ToSet(Items3(consolidated_throughput)) :
           \E n \in Keys(throughput_data) \ {LatencyName} :
              /\ clean_name(n) = e[1]
              /\ Has3(throughput_data, n, e[2], e[3])
              /\ Get3(throughput_data, n, e[2], e[3]) = e[4]

\* both raw names were parsed, Latency first, and Latency recorded a
\* (ratio, depth) key that No_Match did not
C3_Witness ==
    /\ Consolidated
    /\ Len(throughput_data) >= 2
    /\ throughput_data[1].k = LatencyName
    /\ Has(throughput_data, NoMatchName)
    /\ \E e \in ToSet(Items3(throughput_data)) :
          e[1] = LatencyName /\ ~Has3(throughput_data, NoMatchName, e[2], e[3])

Has4(d, a, b, c, e) == Has(d, a) /\ Has3(Get(d, a), b, c, e)

Get4(d, a, b, c, e) == Get3(Get(d, a), b, c, e)

\* C4: for every canonical operation and every depth recorded under at least
\* one ratio (any throughput value, 0 included), print_summary produces
\* exactly one entry for that depth; its best_ratio has that depth recorded,
\* its best_throughput is the maximum over all ratios, and among equal maxima
\* the ratio first in iteration order is the one reported.
C4_SummaryCorrect ==
    (\E c \in DOMAIN calls : calls[c] = "print_summary") =>
      \A i \in DOMAIN consolidated_throughput :
        LET op == consolidated_throughput[i].k
            ratios == consolidated_throughput[i].v
        IN \A d \in UNION {Keys(ratios[j].v) : j \in DOMAIN ratios} :
             LET E == {m \in DOMAIN summary :
                          summary[m].name = op /\ summary[m].depth = d}
                 R == {j \in DOMAIN ratios : Has(ratios[j].v, d)}
                 top == Max({Get(ratios[j].v, d) : j \in R})
             IN /\ Cardinality(E) = 1
                /\ \A m \in E :
                     /\ summary[m].best_throughput = top
                     /\ \E j \in R :
                          /\ ratios[j].k = summary[m].best_ratio
                          /\ Get(ratios[j].v, d) = top
                          /\ \A j2 \in R : j2 < j => Get(ratios[j2].v, d) < top

\* some numeric text captured from the line is not a number
HasGarbled(l) ==
    \/ l.ratio # <<>> /\ ~float_ok(l.ratio[1])
    \/ l.bench # <<>> /\ ~float_ok(l.bench[1].tp)
    \/ \E q \in ToSet(Percentiles) : l.pct[q] # <<>> /\ ~float_ok(l.pct[q][1].num)

\* C5: a line whose numeric text is garbled adds no record to either model,
\* leaves the ambient ratio unchanged, raises no exception, and the loop
\* continues with the next line.
C5_GarbledLineSkipped ==
    [][(LineRead /\ HasGarbled(LastLine)) =>
           (exc' = "" /\ pc' = "parse" /\ UNCHANGED parseVars)]_vars

\* C6: the percentile entries stored under every (raw_name, ratio, depth) key
\* are exactly the percentile fields of the last result line with that key.
C6_LastRecordPercentiles ==
    exc = "" =>
      \A e \in ToSet(Items3(throughput_data)) :
          LET I == ResultIdx(e[1], e[2], e[3])
              last == hist[Max(I)]
          IN \A q \in ToSet(Percentiles) :
               /\ Has4(latency_data, e[1], e[2], e[3], q) <=> last.pct[q] # <<>>
               /\ last.pct[q] # <<>> =>
                    Get4(latency_data, e[1], e[2], e[3], q) = to_ns(last.pct[q][1])

Lowest(S) == CHOOSE x \in S : \A y \in S : x <= y

\* the result lines of raw name n that were stored (a ratio was ambient)
StoredIdx(n) ==
    {i \in DOMAIN hist : /\ IsResult(hist[i])
                         /\ hist[i].bench[1].name = n
                         /\ AmbientAt(i) # None}

\* where raw name n was first parsed
FirstParsed(n) == Lowest(StoredIdx(n))

\* where raw name n first contributed a percentile
FirstPercentile(n) == Lowest({i \in StoredIdx(n) : hist[i].pct # NoPct})

\* every raw latency entry appears under its canonical name; every canonical
\* entry is supplied by a raw source, and on a collision by the source that
\* Rank puts last
LatencyMerged(Rank(_)) ==
    Consolidated =>
      /\ \A e \in ToSet(Items4(latency_data)) :
            Has4(consolidated_latency, clean_name(e[1]), e[2], e[3], e[4])
      /\ \A c \in ToSet(Items4(consolidated_latency)) :
            LET S == {n \in Keys(latency_data) :
                         /\ clean_name(n) = c[1]
                         /\ Has4(latency_data, n, c[2], c[3], c[4])}
            IN \E n \in S :
                  /\ \A n2 \in S : Rank(n2) <= Rank(n)
                  /\ c[5] = Get4(latency_data, n, c[2], c[3], c[4])

C8_EmptyResultReported ==
    pc \in {"exit", "done", "raised"} =>
      /\ throughput_data = <<>> =>
            /\ pc = "exit"
            /\ exc = ""
            /\ calls = <<"parse_benchmark_results", "no_data">>
      /\ throughput_data # <<>> =>
            \A i \in DOMAIN calls : calls[i] # "no_data"

\* C9: every record is stored under the ratio of the most recent ratio
\* announcement preceding its line; a line matching the announcement pattern
\* only updates the ambient ratio and adds no record, even when it also
\* matches the result pattern; a line matching neither pattern changes
\* neither the ambient ratio nor the models.
C9_AmbientRatioOrdering ==
    /\ [](exc = "" =>
           /\ current_ratio = AmbientAt(Len(hist) + 1)
           /\ \A e \in ToSet(Items3(throughput_data)) :
                 ResultIdx(e[1], e[2], e[3]) # {}
           /\ \A e \in ToSet(Items4(latency_data)) :
                 \E i \in ResultIdx(e[1], e[2], e[3]) : hist[i].pct[e[4]] # <<>>
           /\ \A i \in DOMAIN hist :
                 (IsResult(hist[i]) /\ AmbientAt(i) # None) =>
                     Has3(throughput_data, hist[i].bench[1].name, AmbientAt(i),
                          int_of(hist[i].bench[1].depth)))
    /\ [][LineRead =>
            /\ IsAnnouncement(LastLine) =>
                  /\ UNCHANGED <<throughput_data, latency_data>>
                  /\ exc' = "" => current_ratio' = float_of(LastLine.ratio[1])
            /\ (~IsAnnouncement(LastLine) /\ LastLine.bench = <<>>) =>
                  UNCHANGED parseVars]_vars

\* records sit under two different ratios, the second of which was announced
\* by a line that also matches the result pattern
C9_Witness ==
    /\ exc = ""
    /\ \E i \in DOMAIN throughput_data : Len(throughput_data[i].v) >= 2
    /\ \E i \in DOMAIN hist :
          /\ IsAnnouncement(hist[i])
          /\ hist[i].bench # <<>>
          /\ current_ratio = float_of(hist[i].ratio[1])
          /\ \E j \in DOMAIN hist : j < i /\ IsResult(hist[j]) /\ AmbientAt(j) # None
          /\ \E j \in DOMAIN hist : j > i /\ IsResult(hist[j])

\* C10: every (raw_name, ratio, depth) key with a percentile entry in the
\* latency model has a throughput entry; percentile tokens on a line whose
\* result pattern did not match change neither model.
C10_PercentilesNeedRecord ==
    /\ [](\A e \in ToSet(Items4(latency_data)) :
             Has3(throughput_data, e[1], e[2], e[3]))
    /\ [][(LineRead /\ LastLine.bench = <<>> /\ LastLine.pct # NoPct) =>
             UNCHANGED <<throughput_data, latency_data>>]_vars

\* a line with a percentile token and no result was read after a ratio
\* announcement, and the latency model holds percentiles of a real record
C10_Witness ==
    /\ latency_data # <<>>
    /\ \E i \in DOMAIN hist :
          /\ hist[i].bench = <<>>
          /\ hist[i].ratio = <<>>
          /\ hist[i].pct # NoPct
          /\ AmbientAt(i) # None

====
